---- MODULE Spec2Model ----
(***************************************************************************)
(* A model of src/context.rs: HeifContext, the owner of one native         *)
(* heif_context handle, its four constructors, its serialization           *)
(* (write_to_bytes with the vector_writer callback, write_to_file), its    *)
(* queries and derived handles, encode_image and Drop.                     *)
(*                                                                         *)
(* One Context value exists at a time (the slot ctx); native handles are   *)
(* numbered 1, 2, ... in allocation order and NullHandle is the null       *)
(* pointer.  Operations in which the native engine calls back into Rust    *)
(* (read_from_reader, write_to_bytes) take several steps; pc[t] is the     *)
(* operation thread t is inside.  What Rust's ownership rules permit       *)
(* (moves, borrows, Send without Sync) appears as the guards of the        *)
(* actions.  A panic is modelled as unwinding.                             *)
(***************************************************************************)
EXTENDS Integers, Sequences, FiniteSets, TLC

VARIABLES
    ctx,        \* the Context value: st, inner, reader, owner, creator, and
                \* how it came to be: fromBytes, viaReader, encoded
    pc,         \* pc[t]: the multi-step operation thread t is executing
    nextH,      \* number of native handles allocated so far
    frees,      \* frees[h]: number of heif_context_free calls made on handle h
    nimg,       \* top-level images held by the native context of ctx.inner
    rdr,        \* the reader given to read_from_reader: st, drops, early, the
                \* address slot of its storage and the user_data registered
    rcalls,     \* reader callbacks made by the running read_from_reader
    span,       \* the caller's buffer given to read_from_bytes
    vec,        \* res of the running write_to_bytes: store (capacity), len
    pending,    \* chunks the native engine will still hand to vector_writer
    delivered,  \* concatenation of the chunks handed to vector_writer so far
    out,        \* the Vec the last write_to_bytes returned: held, bytes, count
    imgh,       \* handle of the Context the held ImageHandle was made from
    enc,        \* handle of the Context the held Encoder was made from
    ret         \* the last event: op, res, h, calls, allocNull, rt, uaf

vars == <<ctx, pc, nextH, frees, nimg, rdr, rcalls, span, vec, pending,
          delivered, out, imgh, enc, ret>>

----------------------------------------------------------------------------
(* Bounds *)

MaxHandles == 2
MaxImages == 2
MaxChunks == 2
MaxReads == 1

Threads == {"t1", "t2"}

NullHandle == 0

----------------------------------------------------------------------------
(* The native engine's container format, seen as bytes: a header byte      *)
(* followed by one byte per top-level image.  "?" is an uninitialized byte *)
(* of a Vec's spare capacity.                                              *)

Serialize(n) == <<"H">> \o [i \in 1..n |-> "I"]

Parse(b) ==
    IF /\ Len(b) >= 1
       /\ b[1] = "H"
       /\ \A i \in 2..Len(b) : b[i] = "I"
    THEN [ok |-> TRUE, count |-> Len(b) - 1]
    ELSE [ok |-> FALSE, count |-> 0]

\* byte buffers a caller may hand to read_from_bytes, a reader may serve or a
\* file may hold
Inputs == {<< >>, <<"I">>, Serialize(1)}

\* file names: a plain one and one with an interior NUL byte
Names == {<<"a">>, <<"a", "NUL", "b">>}

\* ffi::CString::new(name): an error on an interior NUL, else name plus the
\* terminating NUL
CStringNew(name) ==
    IF \E i \in 1..Len(name) : name[i] = "NUL"
    THEN [ok |-> FALSE, c |-> << >>]
    ELSE [ok |-> TRUE, c |-> name \o <<"NUL">>]

----------------------------------------------------------------------------
(* Values *)

NoCtx == [st |-> "none", inner |-> NullHandle, reader |-> FALSE,
          owner |-> "t1", creator |-> "t1", fromBytes |-> FALSE,
          viaReader |-> FALSE, encoded |-> FALSE]

\* an address: a region of memory and, for a stack, the thread it belongs to
NoAddr == [region |-> "none", th |-> "none"]

NoReader == [st |-> "none", drops |-> 0, early |-> FALSE, slot |-> NoAddr,
             user |-> NoAddr]
NoVec == [store |-> << >>, len |-> 0]
NoOut == [held |-> FALSE, bytes |-> << >>, count |-> 0, encoded |-> FALSE]

\* an event: the operation op returned res; h is the handle it allocated or
\* worked on, calls the fallible native calls it made, allocNull whether its
\* heif_context_alloc returned null, rt the outcome of reading back a
\* write_to_bytes result (afterEncode: one written after an encode_image
\* returned Ok), uaf the released memory the native engine read, opts whether
\* encoding options were supplied, optsLive whether they are live at the
\* native encode call and cfg the configuration pointer handed to that call,
\* slot the content of the native output slot after the native call and
\* wrapped the value an ImageHandle or Encoder was made from
Ret(op, res, h, calls, allocNull) ==
    [op |-> op, res |-> res, h |-> h, calls |-> calls, allocNull |-> allocNull,
     rt |-> "no", afterEncode |-> FALSE, uaf |-> "none", opts |-> FALSE,
     optsLive |-> TRUE, cfg |-> "none", slot |-> "none", wrapped |-> "none"]

\* an event that is no call of a Context operation
Quiet == Ret("other", "Ok", NullHandle, 0, FALSE)

Idle == \A t \in Threads : pc[t] = "idle"

Init ==
    /\ ctx = NoCtx
    /\ pc = [t \in Threads |-> "idle"]
    /\ nextH = 0
    /\ frees = [h \in 0..MaxHandles |-> 0]
    /\ nimg = 0
    /\ rdr = NoReader
    /\ rcalls = 0
    /\ span = "none"
    /\ vec = NoVec
    /\ pending = << >>
    /\ delivered = << >>
    /\ out = NoOut
    /\ imgh = {}
    /\ enc = {}
    /\ ret = Quiet

----------------------------------------------------------------------------
(* HeifContext::new, lines 21-35, and Drop, lines 159-163 *)

\* ctx.is_null()
IsNullNever(h) == FALSE
IsNull(h) == h = NullHandle

\* the results heif_context_alloc can give: null, or the next fresh handle
AllocResults == {NullHandle, nextH + 1}

\* heif_context_free(h)
FreeLeak(f, h) == f
Free(f, h) == [f EXCEPT ![h] = @ + 1]

\* dropping a Box<Box<dyn Reader>>: the reader's storage is released; early
\* records that the native handle it was registered with is still unreleased
ForgetReaderBox(r, handleLive) == r
DropReaderBox(r, handleLive) ==
    [r EXCEPT !.st = "released", !.drops = @ + 1, !.early = @ \/ handleLive]

\* ImageHandle::new(self, handle) keeps the reference to the Context
ImageHandleBorrows == TRUE

\* Encoder::new(*c_encoder) is given no reference to the Context, and the
\* Encoder type carries no lifetime of it
EncoderBorrows == FALSE

\* a derived handle holds a reference to the Context: the Context can then be
\* neither moved nor dropped nor borrowed mutably
Borrowed ==
    \/ ImageHandleBorrows /\ imgh # {}
    \/ EncoderBorrows /\ enc # {}

\* Send without Sync: only the thread that owns the Context can reach it
CanUseShared(t) == ctx.st = "live"
CanUse(t) == ctx.st = "live" /\ ctx.owner = t

\* a constructor can start: no Context exists and the handle bound is not hit
CanConstruct == ctx.st = "none" /\ Idle /\ nextH < MaxHandles

NewCtx(t, h, bytes) ==
    [st |-> "live", inner |-> h, reader |-> FALSE, owner |-> t, creator |-> t,
     fromBytes |-> bytes, viaReader |-> FALSE, encoded |-> FALSE]

\* HeifContext::new()
New(t) ==
    /\ CanConstruct
    /\ \E h \in AllocResults :
        IF IsNull(h)
        THEN /\ ret' = Ret("new", "ContextCreateFailed", h, 0, h = NullHandle)
             /\ UNCHANGED <<ctx, nextH>>
        ELSE /\ ctx' = NewCtx(t, h, FALSE)
             /\ nextH' = IF h = NullHandle THEN nextH ELSE h
             /\ ret' = Ret("new", "Ok", h, 0, h = NullHandle)
    /\ nimg' = 0
    /\ rdr' = NoReader
    /\ span' = "none"
    /\ out' = NoOut
    /\ delivered' = << >>
    /\ UNCHANGED <<pc, frees, rcalls, vec, pending, imgh, enc>>

\* impl Drop for HeifContext, then the drop of the field reader
DropContext(t) ==
    /\ CanUse(t)
    /\ pc[t] = "idle"
    /\ ~Borrowed
    /\ frees' = Free(frees, ctx.inner)
    \* drop() has run heif_context_free when the fields are dropped
    /\ rdr' = IF ctx.reader
              THEN DropReaderBox(rdr, Free(frees, ctx.inner)[ctx.inner] = 0)
              ELSE rdr
    /\ ctx' = NoCtx
    /\ nimg' = 0
    /\ span' = "none"
    /\ ret' = Ret("drop", "Ok", ctx.inner, 0, FALSE)
    /\ UNCHANGED <<pc, nextH, rcalls, vec, pending, delivered, out, imgh, enc>>

\* moving the Context to another thread (unsafe impl Send)
Transfer(t, u) ==
    /\ CanUse(t)
    /\ pc[t] = "idle"
    /\ ~Borrowed
    /\ u # t
    /\ ctx' = [ctx EXCEPT !.owner = u]
    /\ ret' = Ret("send", "Ok", ctx.inner, 0, FALSE)
    /\ UNCHANGED <<pc, nextH, frees, nimg, rdr, rcalls, span, vec, pending,
                   delivered, out, imgh, enc>>

----------------------------------------------------------------------------
(* read_from_bytes, lines 38-50, and read_from_file, lines 53-60 *)

\* what is left of a constructor's local `context` when `?` or a panic leaves
\* the function: the local is dropped, which frees its handle
Abandon(f, h) == Free(f, h)

\* the outcome of reading back the Vec of a write_to_bytes whose Context had
\* orig images, when the parse gives p
ReadBack(p, orig) ==
    IF ~p.ok THEN "fail" ELSE IF p.count = orig THEN "same" ELSE "differ"

\* read_from_bytes(b); fromOut says that b is the Vec a write_to_bytes returned
ReadFromBytes(t, b, fromOut) ==
    /\ CanConstruct
    /\ fromOut => (out.held /\ b = out.bytes)
    /\ \E h \in AllocResults :
        LET p == Parse(b)
            rb == IF fromOut THEN ReadBack(p, out.count) ELSE "no"
        IN
        IF IsNull(h)
        THEN /\ ret' = [Ret("read_from_bytes", "ContextCreateFailed", h, 0,
                            h = NullHandle)
                           EXCEPT !.rt = IF fromOut THEN "nomem" ELSE "no",
                                  !.afterEncode = fromOut /\ out.encoded]
             /\ span' = "none"
             /\ UNCHANGED <<ctx, nextH, frees, nimg>>
        ELSE /\ nextH' = IF h = NullHandle THEN nextH ELSE h
             /\ IF p.ok
                THEN /\ ctx' = NewCtx(t, h, TRUE)
                     /\ nimg' = p.count
                     /\ span' = "live"
                     /\ frees' = frees
                     /\ ret' = [Ret("read_from_bytes", "Ok", h, 1,
                                    h = NullHandle)
                                   EXCEPT !.rt = rb,
                                          !.afterEncode = fromOut /\ out.encoded]
                ELSE /\ frees' = Abandon(frees, h)
                     /\ span' = "none"
                     /\ ret' = [Ret("read_from_bytes", "NativeError", h, 1,
                                    h = NullHandle)
                                   EXCEPT !.rt = rb,
                                          !.afterEncode = fromOut /\ out.encoded]
                     /\ UNCHANGED <<ctx, nimg>>
    /\ rdr' = NoReader
    /\ out' = NoOut
    /\ delivered' = << >>
    /\ UNCHANGED <<pc, rcalls, vec, pending, imgh, enc>>

\* the caller releases the buffer it gave to read_from_bytes: HeifContext has
\* no lifetime parameter, so the returned Context does not borrow the buffer
DropBuffer ==
    /\ span = "live"
    /\ Idle
    /\ span' = "released"
    /\ ret' = Quiet
    /\ UNCHANGED <<ctx, pc, nextH, frees, nimg, rdr, rcalls, vec, pending,
                   delivered, out, imgh, enc>>

\* read_from_file(name), the named file holding the bytes content
ReadFromFile(t, name, content) ==
    /\ CanConstruct
    /\ \E h \in AllocResults :
        LET c == CStringNew(name)
            p == Parse(content)
        IN
        IF IsNull(h)
        THEN /\ ret' = Ret("read_from_file", "ContextCreateFailed", h, 0,
                           h = NullHandle)
             /\ UNCHANGED <<ctx, nextH, frees, nimg>>
        ELSE /\ nextH' = IF h = NullHandle THEN nextH ELSE h
             /\ IF ~c.ok
                THEN \* unwrap() panics; unwinding drops the local context
                     /\ frees' = Abandon(frees, h)
                     /\ ret' = Ret("read_from_file", "Panic", h, 0,
                                   h = NullHandle)
                     /\ UNCHANGED <<ctx, nimg>>
                ELSE IF ~p.ok
                THEN /\ frees' = Abandon(frees, h)
                     /\ ret' = Ret("read_from_file", "NativeError", h, 1,
                                   h = NullHandle)
                     /\ UNCHANGED <<ctx, nimg>>
                ELSE /\ ctx' = NewCtx(t, h, FALSE)
                     /\ nimg' = p.count
                     /\ frees' = frees
                     /\ ret' = Ret("read_from_file", "Ok", h, 1, h = NullHandle)
    /\ rdr' = NoReader
    /\ span' = "none"
    /\ out' = NoOut
    /\ delivered' = << >>
    /\ UNCHANGED <<pc, rcalls, vec, pending, imgh, enc>>

----------------------------------------------------------------------------
(* read_from_reader, lines 63-73: the call, the reader callbacks the native *)
(* engine makes during heif_context_read_from_reader, and the return        *)

\* Box::new(reader): the reader is stored in a heap allocation of its own
BoxNew == [region |-> "heap", th |-> "none"]

\* where the Box itself is held: the local reader_box of read_from_reader,
\* then the field reader of the Context, on the stack of the owning thread
HolderAddress(c) ==
    IF c.st = "building"
    THEN [region |-> "local reader_box", th |-> c.owner]
    ELSE [region |-> "field reader", th |-> c.owner]

\* the address of the stored reader's storage slot, *reader_box: the heap
\* allocation, wherever the Box that owns it is held
SlotAddressInline(r, c) == HolderAddress(c)
SlotAddress(r, c) == r.slot

\* user_data = &mut *reader_box as *mut _ as *mut c_void
UserData(r, c) == SlotAddress(r, c)

ReadFromReaderBegin(t) ==
    /\ CanConstruct
    /\ \E h \in AllocResults :
        IF IsNull(h)
        THEN \* `?` returns; the argument `reader` is dropped
             /\ rdr' = DropReaderBox(NoReader, FALSE)
             /\ ret' = Ret("read_from_reader", "ContextCreateFailed", h, 0,
                           h = NullHandle)
             /\ UNCHANGED <<ctx, pc, nextH>>
        ELSE /\ nextH' = IF h = NullHandle THEN nextH ELSE h
             /\ ctx' = [NewCtx(t, h, FALSE) EXCEPT !.st = "building",
                                                   !.viaReader = TRUE]
             /\ LET box == [NoReader EXCEPT !.st = "boxed", !.slot = BoxNew]
                IN rdr' = [box EXCEPT !.user = UserData(box, ctx')]
             /\ pc' = [pc EXCEPT ![t] = "read_from_reader"]
             /\ ret' = Ret("call", "Ok", h, 0, h = NullHandle)
    /\ rcalls' = 0
    /\ nimg' = 0
    /\ span' = "none"
    /\ out' = NoOut
    /\ delivered' = << >>
    /\ UNCHANGED <<frees, vec, pending, imgh, enc>>

\* HEIF_READER's callbacks, run by the native engine on user_data
ReaderCallback(t) ==
    /\ pc[t] = "read_from_reader"
    /\ rcalls < MaxReads
    /\ rcalls' = rcalls + 1
    /\ ret' = [ret EXCEPT !.uaf = IF rdr.st # "boxed" THEN "reader" ELSE @]
    /\ UNCHANGED <<ctx, pc, nextH, frees, nimg, rdr, span, vec, pending,
                   delivered, out, imgh, enc>>

\* the native call returns, having parsed the bytes the reader served
ReadFromReaderEnd(t, served) ==
    /\ pc[t] = "read_from_reader"
    /\ pc' = [pc EXCEPT ![t] = "idle"]
    /\ rcalls' = 0
    /\ LET p == Parse(served) IN
        IF p.ok
        THEN /\ ctx' = [ctx EXCEPT !.st = "live", !.reader = TRUE]
             /\ nimg' = p.count
             /\ ret' = Ret("read_from_reader", "Ok", ctx.inner, 1,
                           ret.allocNull)
             /\ UNCHANGED <<frees, rdr>>
        ELSE \* `?` returns: reader_box is dropped, then context
             /\ rdr' = DropReaderBox(rdr, frees[ctx.inner] = 0)
             /\ frees' = Abandon(frees, ctx.inner)
             /\ ctx' = NoCtx
             /\ ret' = Ret("read_from_reader", "NativeError", ctx.inner, 1,
                           ret.allocNull)
             /\ UNCHANGED nimg
    /\ UNCHANGED <<nextH, span, vec, pending, delivered, out, imgh, enc>>

----------------------------------------------------------------------------
(* vector_writer, lines 75-91, and write_to_bytes, lines 93-105 *)

\* the bytes of a Vec: the first len bytes of its storage
Contents(v) == SubSeq(v.store, 1, v.len)

\* vec.reserve(size): room for size more bytes after the first len; a
\* reallocation keeps the first len bytes and leaves the rest uninitialized
Reserve(v, size) ==
    IF Len(v.store) - v.len >= size
    THEN v
    ELSE [v EXCEPT !.store = Contents(v) \o [i \in 1..size |-> "?"]]

\* vec.set_len(size)
SetLen(v, size) == [v EXCEPT !.len = size]

\* ptr::copy_nonoverlapping(data, vec.as_mut_ptr(), size)
CopyNonoverlapping(v, data, size) ==
    [v EXCEPT !.store = [i \in 1..Len(v.store) |->
                            IF i <= size THEN data[i] ELSE v.store[i]]]

\* a writer that makes room for the chunk and never copies it
VectorWriterNoCopy(v, data) == SetLen(Reserve(v, Len(data)), Len(data))
\* vector_writer(_ctx, data, size, user_data) on the Vec behind user_data
VectorWriter(v, data) ==
    CopyNonoverlapping(SetLen(Reserve(v, Len(data)), Len(data)), data, Len(data))

RECURSIVE Chunks(_, _)
\* the chunks of s cut after the positions in cuts
Chunks(s, cuts) ==
    IF cuts = {}
    THEN <<s>>
    ELSE LET c == CHOOSE x \in cuts : \A y \in cuts : x <= y
         IN <<SubSeq(s, 1, c)>>
                \o Chunks(SubSeq(s, c + 1, Len(s)), {y - c : y \in cuts \ {c}})

\* the ways the native engine can hand s to the writer in 1..MaxChunks chunks
Splits(s) ==
    {Chunks(s, cuts) : cuts \in {C \in SUBSET (1..(Len(s) - 1)) :
                                    Cardinality(C) <= MaxChunks - 1}}

\* the Context behind &self or &mut self when a method returns res
SelfAfterConsumed(c, res) == IF res = "Ok" THEN c ELSE NoCtx
SelfAfterTakesReader(c, res) == [c EXCEPT !.reader = FALSE]
SelfAfter(c, res) == c

\* write_to_bytes is entered: res is empty and heif_context_write starts
WriteToBytesBegin(t) ==
    /\ CanUse(t)
    /\ pc[t] = "idle"
    /\ pc' = [pc EXCEPT ![t] = "write_to_bytes"]
    /\ vec' = NoVec
    /\ delivered' = << >>
    /\ out' = NoOut
    /\ pending' \in Splits(Serialize(nimg))
    /\ ret' = Ret("call", "Ok", ctx.inner, 0, FALSE)
    /\ UNCHANGED <<ctx, nextH, frees, nimg, rdr, rcalls, span, imgh, enc>>

\* the native engine calls writer.write with the next chunk
WriterCallback(t) ==
    /\ pc[t] = "write_to_bytes"
    /\ pending # << >>
    /\ vec' = VectorWriter(vec, Head(pending))
    /\ delivered' = delivered \o Head(pending)
    /\ pending' = Tail(pending)
    /\ UNCHANGED <<ctx, pc, nextH, frees, nimg, rdr, rcalls, span, out, imgh,
                   enc, ret>>

\* heif_context_write returns: Ok after the last chunk, or an error
WriteToBytesEnd(t, res) ==
    /\ pc[t] = "write_to_bytes"
    /\ res = "Ok" => pending = << >>
    /\ pc' = [pc EXCEPT ![t] = "idle"]
    /\ ctx' = SelfAfter(ctx, res)
    /\ out' = IF res = "Ok"
              THEN [held |-> TRUE, bytes |-> Contents(vec), count |-> nimg,
                    encoded |-> ctx.encoded]
              ELSE NoOut
    /\ delivered' = IF res = "Ok" THEN delivered ELSE << >>
    /\ vec' = NoVec
    /\ pending' = << >>
    /\ ret' = Ret("write_to_bytes", res, ctx.inner, 1, FALSE)
    /\ UNCHANGED <<nextH, frees, nimg, rdr, rcalls, span, imgh, enc>>

----------------------------------------------------------------------------
(* write_to_file, lines 107-111 *)

WriteToFile(t, name, res) ==
    /\ CanUse(t)
    /\ pc[t] = "idle"
    /\ LET c == CStringNew(name) IN
        IF ~c.ok
        THEN \* unwrap() panics before any native call
             /\ ctx' = SelfAfter(ctx, "Panic")
             /\ ret' = Ret("write_to_file", "Panic", ctx.inner, 0, FALSE)
        ELSE /\ ctx' = SelfAfter(ctx, res)
             /\ ret' = Ret("write_to_file", res, ctx.inner, 1, FALSE)
    /\ out' = NoOut
    /\ delivered' = << >>
    /\ UNCHANGED <<pc, nextH, frees, nimg, rdr, rcalls, span, vec, pending,
                   imgh, enc>>

----------------------------------------------------------------------------
(* primary_image_handle, lines 117-122; encoder_for_format, lines 124-132; *)
(* encode_image, lines 134-156                                             *)

\* mem::uninitialized(): the output slot first holds whatever was there
Uninitialized == {"garbage", "stale handle"}

\* the native call writes the slot only when it reports success
NativeFill(slot, res) == IF res = "Ok" THEN "native handle" ELSE slot

\* `HeifError::from_heif_error(err)?` and then the wrapping of the slot: the
\* slot is read only past the `?`
WrapAlways(res, slot) == slot
Wrap(res, slot) == IF res = "Ok" THEN slot ELSE "none"

PrimaryImageHandle(t) ==
    /\ CanUse(t)
    /\ pc[t] = "idle"
    /\ imgh = {}
    /\ \E garbage \in Uninitialized :
        LET res == IF nimg >= 1 THEN "Ok" ELSE "NativeError"
            handle == NativeFill(garbage, res)
        IN
        /\ ctx' = SelfAfter(ctx, res)
        /\ imgh' = IF Wrap(res, handle) # "none" THEN {ctx.inner} ELSE {}
        /\ ret' = [Ret("primary_image_handle", res, ctx.inner, 1, FALSE)
                    EXCEPT !.slot = handle, !.wrapped = Wrap(res, handle)]
    /\ out' = NoOut
    /\ delivered' = << >>
    /\ UNCHANGED <<pc, nextH, frees, nimg, rdr, rcalls, span, vec, pending, enc>>

\* the ImageHandle is dropped
ReleaseImageHandle ==
    /\ imgh # {}
    /\ imgh' = {}
    /\ ret' = Quiet
    /\ UNCHANGED <<ctx, pc, nextH, frees, nimg, rdr, rcalls, span, vec, pending,
                   delivered, out, enc>>

\* decoding through the ImageHandle: the native engine reads the container's
\* bytes, which for a Context from read_from_bytes are the caller's buffer
Decode(t) ==
    /\ CanUse(t)
    /\ pc[t] = "idle"
    /\ imgh = {ctx.inner}
    /\ ret' = [Ret("decode", "Ok", ctx.inner, 1, FALSE) EXCEPT
                 !.uaf = IF ctx.fromBytes /\ span = "released" THEN "span"
                                                              ELSE "none"]
    /\ UNCHANGED <<ctx, pc, nextH, frees, nimg, rdr, rcalls, span, vec, pending,
                   delivered, out, imgh, enc>>

\* Encoder::new, outside this file, is taken to wrap the handle it is given
EncoderForFormat(t, res) ==
    /\ CanUse(t)
    /\ pc[t] = "idle"
    /\ enc = {}
    /\ ctx' = SelfAfter(ctx, res)
    /\ \E garbage \in Uninitialized :
        LET c_encoder == NativeFill(garbage, res) IN
        /\ enc' = IF Wrap(res, c_encoder) # "none" THEN {ctx.inner} ELSE {}
        /\ ret' = [Ret("encoder_for_format", res, ctx.inner, 1, FALSE)
                    EXCEPT !.slot = c_encoder, !.wrapped = Wrap(res, c_encoder)]
    /\ out' = NoOut
    /\ delivered' = << >>
    /\ UNCHANGED <<pc, nextH, frees, nimg, rdr, rcalls, span, vec, pending, imgh>>

\* the Encoder is dropped
ReleaseEncoder ==
    /\ enc # {}
    /\ enc' = {}
    /\ ret' = Quiet
    /\ UNCHANGED <<ctx, pc, nextH, frees, nimg, rdr, rcalls, span, vec, pending,
                   delivered, out, imgh>>

\* the scope that owns the binding `options` of the arm Some(options): the
\* Option is matched by value, so the arm owns the options and drops them
OptionsScope == "match arm"

\* the scopes that can own the temporary options.heif_encoding_options()
\* whose address is taken in the arm: the arm, or the function body with
\* compilers that extend the temporaries of a let initializer's match arms
TempScopes == {"match arm", "function body"}

\* a value is live at heif_context_encode_image, which runs after the match,
\* if the function body owns it; what a match arm owns is dropped at its end
LiveAtCall(scope) == scope = "function body"

\* encoding_options_ptr as the native encode call receives it: ptr::null()
\* for None, else the address of the temporary owned by scope
ConfigPtr(given, scope) ==
    IF ~given THEN "null"
    ELSE IF LiveAtCall(scope) THEN "live"
    ELSE "dangling"

\* encode_image(image, encoder, encoding_options); given: options are Some
EncodeImage(t, given, res) ==
    /\ CanUse(t)
    /\ pc[t] = "idle"
    /\ ~Borrowed
    /\ enc # {}
    /\ res = "Ok" => nimg < MaxImages
    /\ ctx' = [SelfAfter(ctx, res) EXCEPT !.encoded = @ \/ res = "Ok"]
    /\ nimg' = IF res = "Ok" THEN nimg + 1 ELSE nimg
    /\ \E scope \in TempScopes :
        ret' = [Ret("encode_image", res, ctx.inner, 1, FALSE) EXCEPT
                 !.opts = given,
                 !.optsLive = ~given \/ LiveAtCall(OptionsScope),
                 !.cfg = ConfigPtr(given, scope),
                 !.uaf = IF ConfigPtr(given, scope) = "dangling" THEN "options"
                         ELSE IF \E h \in enc : frees[h] > 0 THEN "encoder"
                         ELSE "none"]
    /\ out' = NoOut
    /\ delivered' = << >>
    /\ UNCHANGED <<pc, nextH, frees, rdr, rcalls, span, vec, pending, imgh, enc>>

----------------------------------------------------------------------------

Results == {"Ok", "NativeError"}

Next ==
    \/ \E t \in Threads : New(t)
    \/ \E t \in Threads : DropContext(t)
    \/ \E t, u \in Threads : Transfer(t, u)
    \/ \E t \in Threads, b \in Inputs : ReadFromBytes(t, b, FALSE)
    \/ \E t \in Threads : ReadFromBytes(t, out.bytes, TRUE)
    \/ DropBuffer
    \/ \E t \in Threads, name \in Names, b \in Inputs : ReadFromFile(t, name, b)
    \/ \E t \in Threads : ReadFromReaderBegin(t)
    \/ \E t \in Threads : ReaderCallback(t)
    \/ \E t \in Threads, b \in Inputs : ReadFromReaderEnd(t, b)
    \/ \E t \in Threads : WriteToBytesBegin(t)
    \/ \E t \in Threads : WriterCallback(t)
    \/ \E t \in Threads, res \in Results : WriteToBytesEnd(t, res)
    \/ \E t \in Threads, name \in Names, res \in Results : WriteToFile(t, name, res)
    \/ \E t \in Threads : PrimaryImageHandle(t)
    \/ ReleaseImageHandle
    \/ \E t \in Threads : Decode(t)
    \/ \E t \in Threads, res \in Results : EncoderForFormat(t, res)
    \/ ReleaseEncoder
    \/ \E t \in Threads, given \in BOOLEAN, res \in Results :
            EncodeImage(t, given, res)

Spec == Init /\ [][Next]_vars

----------------------------------------------------------------------------
(* Properties *)

Writing == \E t \in Threads : pc[t] = "write_to_bytes"

\* C1: every native handle that was allocated is released exactly once by the
\* time its Context, or the failed constructor's local Context, is gone, and
\* is not released while that Context exists
C1_ReleasedExactlyOnce ==
    \A h \in 1..MaxHandles :
        h <= nextH =>
            IF ctx.st # "none" /\ ctx.inner = h
            THEN frees[h] = 0
            ELSE frees[h] = 1

C1_Witness ==
    /\ ret.op = "read_from_bytes"
    /\ ret.res = "NativeError"
    /\ frees[ret.h] = 1
    /\ \E h \in 1..MaxHandles : h # ret.h /\ frees[h] = 1

\* C2: during write_to_bytes the buffer is the concatenation of the chunks
\* handed to the writer callback so far, and the Vec returned on success is
\* the concatenation of all of them
C2_WriterAccumulates ==
    /\ Writing => Contents(vec) = delivered
    /\ out.held => out.bytes = delivered

\* C3: reading back the bytes that write_to_bytes returned succeeds and gives
\* a Context with as many top-level images as the one written
C3_RoundTrip == ret.rt \in {"no", "nomem", "same"}

\* C4: when the registration of read_from_reader fails, no Context is
\* returned, the reader is released exactly once and so is the handle
C4_RegistrationErrorReleases ==
    /\ rdr.drops <= 1
    /\ (ret.op = "read_from_reader" /\ ret.res = "NativeError") =>
          /\ ctx.st = "none"
          /\ rdr.st = "released"
          /\ rdr.drops = 1
          /\ frees[ret.h] = 1

C4_Witness ==
    /\ ret.op = "read_from_reader"
    /\ ret.res = "NativeError"
    /\ rdr.drops = 1
    /\ ret.h # NullHandle

\* C5: read_from_file and write_to_file end by returning Ok or Err for every
\* name, never by a panic
C5_FileNameNeverPanics ==
    ret.op \in {"read_from_file", "write_to_file"} => ret.res # "Panic"

\* C6: no ImageHandle or Encoder is held once the native handle of the
\* Context it was obtained from has been released
C6_NoDerivedHandleOutlives == \A h \in imgh \cup enc : frees[h] = 0

\* C7: whenever the native engine reads the byte span given to
\* read_from_bytes, the caller's buffer has not been released
C7_SpanLiveWhenRead == ret.uaf # "span"

C7_Witness == ret.op = "decode" /\ ctx.fromBytes /\ span = "live"

SelfOps == {"write_to_bytes", "write_to_file", "primary_image_handle",
            "encoder_for_format", "encode_image"}

\* the last event is the failure of one of the operations on an existing
\* Context
FailedSelfOp == ret.op \in SelfOps /\ ret.res \in {"NativeError", "Panic"}

\* C8: a step in which write_to_bytes, write_to_file, primary_image_handle,
\* encoder_for_format or encode_image fails leaves the Context as it was, with
\* the same live non-null handle and the same unreleased reader, and the
\* owner can call an operation on it again
C8_FailureLeavesContext ==
    /\ [][FailedSelfOp' =>
            /\ ctx.st = "live"
            /\ ctx' = ctx
            /\ frees' = frees
            /\ rdr' = rdr
            /\ nimg' = nimg
            /\ ctx.inner # NullHandle
            /\ frees[ctx.inner] = 0
            /\ ctx.reader => (rdr.st = "boxed" /\ rdr.drops = 0)]_vars
    /\ [](FailedSelfOp => ENABLED WriteToBytesBegin(ctx.owner))

C8_Witness ==
    /\ ret.op = "write_to_bytes"
    /\ ret.res = "NativeError"
    /\ ctx.st = "live"
    /\ ctx.reader
    /\ rdr.st = "boxed"

Constructors == {"new", "read_from_bytes", "read_from_file", "read_from_reader"}

\* C9: a Context never has a null handle and keeps the handle it was built
\* with; a constructor whose allocation returned null returns
\* ContextCreateFailed without any further native call, and the native free
\* is never called on the null handle
C9_HandleNeverNull ==
    /\ [](/\ ctx.st # "none" => ctx.inner # NullHandle
          /\ frees[NullHandle] = 0
          /\ ret.allocNull =>
                /\ ret.op \in Constructors
                /\ ret.res = "ContextCreateFailed"
                /\ ret.calls = 0
                /\ ctx.st = "none")
    /\ [][(ctx.st # "none" /\ ctx'.st # "none") => ctx'.inner = ctx.inner]_vars

C9_Witness ==
    /\ ret.allocNull
    /\ ret.op = "read_from_reader"
    /\ ret.res = "ContextCreateFailed"
    /\ nextH >= 1

\* C10: at most one thread at a time is inside an operation on the Context,
\* and it is the thread that owns it; while the operation and its callbacks
\* run the Context is neither destroyed nor moved
C10_OneThreadAtATime ==
    /\ [](\A t \in Threads :
            pc[t] # "idle" =>
                /\ \A u \in Threads : pc[u] # "idle" => u = t
                /\ ctx.st # "none"
                /\ ctx.owner = t
                /\ frees[ctx.inner] = 0)
    /\ [][\A t \in Threads :
            (pc[t] # "idle" /\ pc'[t] # "idle") => ctx'.owner = ctx.owner]_vars

\* the writer callback has run on a thread the Context was sent to
C10_Witness ==
    \E t \in Threads :
        /\ pc[t] = "write_to_bytes"
        /\ ctx.creator # t
        /\ delivered # << >>

\* C11: the Vec of a write_to_bytes made after encode_image returned Ok is
\* not empty, and read_from_bytes accepts it and gives a Context with at
\* least one top-level image
C11_EncodedImageWritten ==
    /\ (out.held /\ out.encoded) => out.bytes # << >>
    /\ (ret.afterEncode /\ ret.rt # "nomem") => (ret.res = "Ok" /\ nimg >= 1)

\* C12: a reader registered with a native context is never released while
\* the handle of that context is still unreleased
C12_ReaderNotBeforeHandle == ~rdr.early

\* C13: from registration until the Context is destroyed, the address
\* registered as user_data is the address of the stored reader's storage
\* slot, also after the reader is stored in the Context and after the
\* Context is moved
C13_UserDataStable ==
    (ctx.st # "none" /\ ctx.viaReader /\ rdr.st = "boxed") =>
        rdr.user = SlotAddress(rdr, ctx)

C13_Witness ==
    /\ ctx.st = "live"
    /\ ctx.reader
    /\ ctx.owner # ctx.creator
    /\ rdr.st = "boxed"
    /\ rdr.user = BoxNew

\* C14: the configuration pointer of the native encode call is null exactly
\* when no encoding options were supplied, and when options were supplied it
\* points to their native representation, which like the options is live
\* during the call
C14_ConfigPointer ==
    ret.op = "encode_image" =>
        /\ ret.cfg = "null" <=> ~ret.opts
        /\ ret.opts => (ret.cfg = "live" /\ ret.optsLive)

\* C15: primary_image_handle and encoder_for_format make no ImageHandle or
\* Encoder from the output slot when the native call reported an error, and
\* on success wrap exactly the value the native engine wrote to the slot
C15_SlotReadOnlyOnSuccess ==
    ret.op \in {"primary_image_handle", "encoder_for_format"} =>
        /\ ret.res # "Ok" =>
              /\ ret.wrapped = "none"
              /\ ret.op = "primary_image_handle" => imgh = {}
              /\ ret.op = "encoder_for_format" => enc = {}
        /\ ret.res = "Ok" =>
              /\ ret.wrapped = "native handle"
              /\ ret.wrapped = ret.slot
              /\ ret.op = "primary_image_handle" => imgh = {ret.h}
              /\ ret.op = "encoder_for_format" => enc = {ret.h}

C15_Witness ==
    /\ ret.op = "encoder_for_format"
    /\ ret.res = "NativeError"
    /\ ret.slot = "stale handle"
    /\ ret.wrapped = "none"

NativeOps == {"read_from_bytes", "read_from_file", "read_from_reader",
              "write_to_bytes", "write_to_file", "primary_image_handle",
              "encoder_for_format", "encode_image"}

\* C16: every operation with a fallible native call makes that call exactly
\* once and returns Ok or Err as that call's result says; a constructor whose
\* allocation already failed returns that failure instead
C16_OneNativeCallPerInvocation ==
    ret.op \in NativeOps =>
        IF ret.allocNull
        THEN ret.res = "ContextCreateFailed"
        ELSE ret.calls = 1 /\ ret.res \in {"Ok", "NativeError"}

\* b occurs in d as a run of consecutive bytes
IsPartOf(b, d) ==
    \E i \in 1..(Len(d) + 1) :
        /\ i + Len(b) - 1 <= Len(d)
        /\ SubSeq(d, i, i + Len(b) - 1) = b

\* C17: a write_to_bytes call starts from an empty buffer; what it returns on
\* success are bytes its own writer callbacks delivered; outside a call there
\* is no buffer and nothing is delivered; a native failure returns Err and no
\* bytes
C17_WriteScopedToCall ==
    /\ [](/\ (Writing /\ delivered = << >>) => Contents(vec) = << >>
          /\ Writing => IsPartOf(Contents(vec), delivered)
          /\ out.held => (ret.res = "Ok" /\ IsPartOf(out.bytes, delivered))
          /\ ~Writing => (vec = NoVec /\ pending = << >>)
          /\ (ret.op = "write_to_bytes" /\ ret.res # "Ok") =>
                (~out.held /\ out.bytes = << >>))
    /\ [][(vec' # vec \/ (delivered' # delivered /\ delivered' # << >>)) =>
            Writing]_vars

C17_Witness ==
    /\ ret.op = "write_to_bytes"
    /\ out.held
    /\ out.bytes # << >>
    /\ Len(delivered) > Len(out.bytes)

\* C18: a live Context holds a stored reader exactly when read_from_reader
\* built it; no step that keeps the Context alive adds, replaces or removes
\* the stored reader
C18_ReaderOnlyFromReadFromReader ==
    /\ [](ctx.st = "live" =>
            /\ ctx.reader <=> ctx.viaReader
            /\ ctx.reader => rdr.st = "boxed"
            /\ ctx.fromBytes => ~ctx.reader)
    /\ [][(ctx.st = "live" /\ ctx'.st = "live") =>
            /\ ctx'.reader = ctx.reader
            /\ ctx'.viaReader = ctx.viaReader
            /\ ctx.reader => rdr' = rdr]_vars

C18_Witness ==
    /\ ctx.st = "live"
    /\ ctx.reader
    /\ ret.op = "encode_image"
    /\ ret.res = "Ok"

====
